---- MODULE Spec2Model ----
(***************************************************************************)
(* A model of real-array-include (src/src/ArrayInclude.ts): the deep       *)
(* inclusion matcher assertRealInclude / assertRealArrayInclude, its       *)
(* per-call context, and the process-wide defaults set by setDefaultMode.  *)
(*                                                                         *)
(* JavaScript values are records [k, a, e]:                                *)
(*   k  the kind: "undefined", "null", "string", "number", "function",     *)
(*      "symbol", "object" or "array";                                     *)
(*   a  the atom: a string's text, a number's digits, a function's or a    *)
(*      symbol's name, and for an object or array its identity (objects    *)
(*      are compared by reference);                                        *)
(*   e  the own enumerable properties in enumeration order, each an entry  *)
(*      [sym, name, val]: sym says whether the key is a symbol, name is    *)
(*      the key (an array's keys are "0", "1", ...).                       *)
(***************************************************************************)
EXTENDS Integers, Sequences, FiniteSets, TLC

VARIABLES
    defaultMode,            \* ArrayInclude.ts:2   'check' | 'assert'
    defaultAssertionFuncs,  \* ArrayInclude.ts:1   [fail, equal], each "none" or a function
    chaiInstalled,          \* whether require('chai') succeeds in this process
    actual,                 \* the caller's actual value
    expected,               \* the caller's expected value
    options,                \* the caller's options object: funcmode and symbols
    heap,                   \* the caller's symbol descriptors, by address
    last                    \* what the most recent API call did

vars == <<defaultMode, defaultAssertionFuncs, chaiInstalled, actual, expected,
          options, heap, last>>

-----------------------------------------------------------------------------
(* Values *)

V(k, a, e) == [k |-> k, a |-> a, e |-> e]
Entry(sym, name, val) == [sym |-> sym, name |-> name, val |-> val]

Undefined == V("undefined", "", <<>>)
Null == V("null", "", <<>>)
Str(s) == V("string", s, <<>>)
Num(d) == V("number", d, <<>>)
Fn(name) == V("function", name, <<>>)
Sym(name) == V("symbol", name, <<>>)
Obj(entries) == V("object", "", entries)
Arr(elems) == V("array", "", [i \in 1..Len(elems) |-> Entry(FALSE, ToString(i - 1), elems[i])])

\* typeof: null, objects and arrays are all 'object'
TypeOf(v) == IF v.k \in {"null", "object", "array"} THEN "object" ELSE v.k

IsArray(v) == v.k = "array"

\* x === y: primitives by value, functions, symbols and objects by identity
StrictEquals(x, y) == x.k = y.k /\ x.a = y.a

\* Fresh identities for the objects and arrays of a value tree, by position:
\* two distinct positions of an input hold two distinct objects.
RECURSIVE Alloc(_, _)
Alloc(v, id) ==
    IF v.k \in {"object", "array"}
    THEN V(v.k, id, [i \in 1..Len(v.e) |->
             Entry(v.e[i].sym, v.e[i].name, Alloc(v.e[i].val, id \o "." \o ToString(i)))])
    ELSE v

\* Object.keys(v): the string keys, in order
OwnKeys(v) ==
    LET strs == SelectSeq(v.e, LAMBDA en : ~en.sym)
    IN [i \in 1..Len(strs) |-> strs[i].name]

HasKey(v, name) == \E i \in 1..Len(v.e) : ~v.e[i].sym /\ v.e[i].name = name

\* v[name] for a string key
Get(v, name) ==
    IF v.k = "string"
    THEN IF name = "0" /\ v.a # "" THEN v ELSE Undefined
    ELSE IF HasKey(v, name)
         THEN (CHOOSE en \in {v.e[i] : i \in 1..Len(v.e)} : ~en.sym /\ en.name = name).val
         ELSE Undefined

\* for (const k in v): the enumerable string keys with their values; the texts
\* of the model have at most one character, so a non-empty string has index "0"
ForIn(v) ==
    IF v.k \in {"object", "array"} THEN SelectSeq(v.e, LAMBDA en : ~en.sym)
    ELSE IF v.k = "string" /\ v.a # "" THEN <<Entry(FALSE, "0", v)>>
    ELSE <<>>

-----------------------------------------------------------------------------
(* The leaf primitives *)

\* String(v) as Array.prototype.join renders an element
RECURSIVE ToText(_)
ToText(v) ==
    CASE v.k \in {"undefined", "null"} -> ""
      [] v.k \in {"string", "number"} -> v.a
      [] v.k = "array" ->
            IF Len(v.e) = 0 THEN ""
            ELSE LET RECURSIVE Join(_)
                     Join(i) == IF i = 1 THEN ToText(v.e[1].val)
                                ELSE Join(i - 1) \o "," \o ToText(v.e[i].val)
                 IN Join(Len(v.e))
      [] v.k = "object" -> "[object Object]"
      [] OTHER -> "function " \o v.a

\* Number(text) for the texts of the model, as digits
TextToNumber(s) == IF s = "" THEN "0" ELSE IF s \in {"0", "1", "2"} THEN s ELSE "NaN"

\* x == y (chai's assert.equal is non-strict). Converting an array that holds a
\* symbol raises a TypeError, which fails the assertion like an inequality.
LooseEquals(x, y) ==
    LET prim(v) == IF v.k \in {"object", "array", "function"} THEN Str(ToText(v)) ELSE v
        IsNullish(v) == v.k \in {"undefined", "null"}
        px == prim(x)
        py == prim(y)
    IN  IF TypeOf(x) = TypeOf(y) /\ (x.k = "null") = (y.k = "null") THEN StrictEquals(x, y)
        ELSE IF IsNullish(x) \/ IsNullish(y) THEN IsNullish(x) /\ IsNullish(y)
        ELSE IF px.k = "symbol" \/ py.k = "symbol" THEN FALSE
        ELSE IF px.k = py.k THEN px.a = py.a
        ELSE IF px.k = "number" THEN TextToNumber(py.a) = px.a
        ELSE TextToNumber(px.a) = py.a

\* ctx.assertionFuncs.equal(a, b, message): TRUE when it returns, FALSE when it
\* raises. "none" is a missing function: calling it raises a TypeError.
CallEqual(ctx, a, b) ==
    CASE ctx.assertionFuncs.equal = "none" -> FALSE
      [] ctx.assertionFuncs.equal = "chai" -> LooseEquals(a, b)
      [] OTHER -> TypeOf(a) = TypeOf(b) /\ StrictEquals(a, b)

\* The callables of the model, each "true", "false" or "throw" on a value:
\*   tstFunc   (test: string) => test.startsWith('a'), a TypeError off strings
\*   never     () => false
\*   isString  (v) => typeof v === 'string'
FnCall(name, v) ==
    CASE name = "tstFunc" -> IF v.k # "string" THEN "throw"
                             ELSE IF v.a = "a" THEN "true" ELSE "false"
      [] name = "isString" -> IF v.k = "string" THEN "true" ELSE "false"
      [] OTHER -> "false"

\* A symbol descriptor's matcher on a value:
\*   defined      (a) => typeof a !== 'undefined', the default
\*   startsWithA  v => !!v?.startsWith('a')
MatcherCall(name, v) ==
    CASE name = "defined" -> IF v.k # "undefined" THEN "true" ELSE "false"
      [] OTHER -> IF v.k \in {"undefined", "null"} THEN "false"
                  ELSE IF v.k # "string" THEN "throw"
                  ELSE IF v.a = "a" THEN "true" ELSE "false"

-----------------------------------------------------------------------------
(* The matching engine.  A call threads the mutable state st = [heap, syms,   *)
(* arrs]: heap holds the symbol descriptors [matcher, value] by address (the  *)
(* context's symbols map a token to an address, and every nested context      *)
(* shares them), syms and arrs are the trace of what the call did.  A result  *)
(* is the state with r: "true" or "false" (returned) or "throw" (raised).     *)

Result(r, st) == [r |-> r, heap |-> st.heap, syms |-> st.syms, arrs |-> st.arrs]
StateOf(res) == [heap |-> res.heap, syms |-> res.syms, arrs |-> res.arrs]

IsRegistered(ctx, v) == v.k = "symbol" /\ v.a \in DOMAIN ctx.symbols
Descriptor(ctx, st, tok) == st.heap[ctx.symbols[tok]]

\* symval.value = v
Bind(ctx, st, tok, v) ==
    [st EXCEPT !.heap = [@ EXCEPT ![ctx.symbols[tok]] = [@ EXCEPT !.value = v]]]

\* One occurrence of a placeholder token in the trace: the slot before and
\* after, the candidate it met (for a key, the object it was looked up in),
\* and whether the occurrence was satisfied.
Occurrence(st, tok, role, path, before, cand, accepted, after) ==
    [st EXCEPT !.syms = Append(@, [tok |-> tok, role |-> role, path |-> path,
        before |-> before, cand |-> cand, accepted |-> accepted, after |-> after])]

\* One step of an array match in the trace.  ev is how an expected element
\* took an actual one ("function", "symbol", "composite", "scalar"), "probe" (a
\* composite candidate that did not match), "notfound" (no candidate left) or
\* "done" (every expected element found).  exp and act are the expected and
\* the actual element ("notfound": the element and the array; "done": the two
\* arrays), skip is skipActuals before the step, assign the indices taken.
ArrayEvent(st, ev, path, mode, ei, name, exp, act, skip, assign) ==
    [st EXCEPT !.arrs = Append(@, [ev |-> ev, path |-> path, mode |-> mode, ei |-> ei,
        ai |-> name, exp |-> exp, act |-> act, skip |-> skip, assign |-> assign])]

\* assertProperty without the failure for a property that is not there
assertPropertyLoose(obj, property) == TypeOf(obj) = "object" /\ obj.k # "null"

\* assertProperty(obj, property, message, ctx): TRUE when it returns true, FALSE
\* when it raises (the internal error, Object.keys(null), or ctx.assertionFuncs.fail)
assertProperty(obj, property) ==
    /\ TypeOf(obj) = "object"
    /\ obj.k # "null"
    /\ property.k = "string"
    /\ HasKey(obj, property.a)
    /\ property.a # ""              \* find returns the key itself, and '' is falsy

\* assertTrue(expectation, message, ctx)
assertTrue(expectation) == expectation = "true"

RECURSIVE _assertRealInclude(_, _, _, _, _)
RECURSIVE _assertRealArrayInclude(_, _, _, _, _)

\* catch (e) { if (ctx.mode === 'assert') throw e; return false; }
Boundary(ctx, body) ==
    IF body.r = "throw" /\ ctx.mode # "assert" THEN [body EXCEPT !.r = "false"] ELSE body

\* The key of actual that stands for one expected key: [ok, key, st], ok FALSE
\* when the lookup raises.
ResolveKey(act, en, propPath, ctx, matchedKeys, st) ==
    IF en.sym /\ en.name \in DOMAIN ctx.symbols
    THEN LET symval == Descriptor(ctx, st, en.name)
             resolved == MatcherCall(symval.matcher, symval.value)
             keys == OwnKeys(act)
             hits == {i \in 1..Len(keys) : /\ keys[i] \notin matchedKeys
                                           /\ MatcherCall(symval.matcher, Str(keys[i])) # "false"}
             first == CHOOSE i \in hits : \A j \in hits : i <= j
             foundkey == IF hits = {} THEN Undefined ELSE Str(keys[first])
             bound == /\ act.k # "null"
                      /\ hits # {} => MatcherCall(symval.matcher, Str(keys[first])) = "true"
                      /\ MatcherCall(symval.matcher, foundkey) = "true"
         IN  CASE resolved = "throw" -> [ok |-> FALSE, key |-> "", st |-> st]
               [] resolved = "false" ->
                    \* not assigned yet: the first unmatched key the matcher takes
                    IF bound
                    THEN [ok |-> TRUE, key |-> foundkey.a,
                          st |-> Occurrence(Bind(ctx, st, en.name, foundkey), en.name, "key",
                                            propPath, symval.value, act, TRUE, foundkey)]
                    ELSE [ok |-> FALSE, key |-> "",
                          st |-> Occurrence(st, en.name, "key", propPath, symval.value, act,
                                            FALSE, symval.value)]
               [] OTHER ->
                    \* resolved: the object must have that property
                    [ok |-> assertProperty(act, symval.value), key |-> symval.value.a,
                     st |-> Occurrence(st, en.name, "key", propPath, symval.value, act,
                                       assertProperty(act, symval.value), symval.value)]
    ELSE [ok |-> assertProperty(act, IF en.sym THEN Sym(en.name) ELSE Str(en.name)),
          key |-> en.name, st |-> st]

\* The resolve-or-check protocol on one candidate: the descriptor under `slot`
\* is read and bound, the occurrence is traced for the token `tok` (the two
\* differ where the object matcher reads ctx.symbols[expectedKey] for a
\* placeholder value).  [accepted, st]
ResolveOrCheck(ctx, st, slot, tok, role, path, cand) ==
    LET symval == Descriptor(ctx, st, slot)
        before == Descriptor(ctx, st, tok).value
        resolved == MatcherCall(symval.matcher, symval.value)
        accepted == CASE resolved = "throw" -> FALSE
                      [] resolved = "false" -> MatcherCall(symval.matcher, cand) = "true"
                      [] OTHER -> CallEqual(ctx, cand, symval.value)
        st1 == IF resolved = "false" /\ accepted THEN Bind(ctx, st, slot, cand) ELSE st
    IN  [accepted |-> accepted,
         st |-> Occurrence(st1, tok, role, path, before, cand, accepted,
                           Descriptor(ctx, st1, tok).value)]

\* "true" when the protocol accepted, "throw" when it failed
Protocol(outcome) == Result(IF outcome.accepted THEN "true" ELSE "throw", outcome.st)

\* The value of one expected key against actual[actualKey]: "true" or "throw"
MatchValue(act, actualKey, en, propPath, ctx, st) ==
    LET expectedVal == en.val
        actualVal == Get(act, actualKey)
        inner == [ctx EXCEPT !.mode = "assert"]
    IN  CASE TypeOf(expectedVal) = "object" ->
                IF IsArray(expectedVal)
                THEN _assertRealArrayInclude(actualVal, expectedVal, propPath, inner, st)
                ELSE _assertRealInclude(actualVal, expectedVal, propPath, inner, st)
          [] TypeOf(expectedVal) = "function" /\ ctx.funcmode = "matcher" ->
                Result(IF assertTrue(FnCall(expectedVal.a, actualVal)) THEN "true" ELSE "throw", st)
          [] IsRegistered(ctx, expectedVal) ->
                \* ctx.symbols[expectedKey]: undefined for an ordinary key, and
                \* reading its matcher raises a TypeError
                IF en.sym /\ en.name \in DOMAIN ctx.symbols
                THEN Protocol(ResolveOrCheck(ctx, st, en.name, expectedVal.a, "value",
                                             propPath, actualVal))
                ELSE Result("throw", st)
          [] OTHER ->
                Result(IF CallEqual(ctx, actualVal, expectedVal) THEN "true" ELSE "throw", st)

RECURSIVE KeyLoop(_, _, _, _, _, _, _)

\* the rest of one iteration, once the value has been compared
AfterValue(m, act, keys, i, path, ctx, matchedKeys) ==
    IF m.r = "throw" THEN m
    ELSE KeyLoop(act, keys, i + 1, path, ctx, matchedKeys, StateOf(m))

\* the rest of one iteration, once the key of actual is known
AfterKey(k, act, keys, i, path, propPath, ctx, matchedKeys) ==
    IF ~k.ok THEN Result("throw", k.st)
    ELSE AfterValue(MatchValue(act, k.key, keys[i], propPath, ctx, k.st),
                    act, keys, i, path, ctx, matchedKeys \cup {k.key})

PropPath(path, en) ==
    path \o "." \o (IF en.sym THEN "Symbol(" \o en.name \o ")" ELSE en.name)

\* for (const expectedKey of [...Object.keys(expected), ...symbols]) from the
\* i-th key on: "true" when the loop ends, "throw" when an iteration raises
KeyLoop(act, keys, i, path, ctx, matchedKeys, st) ==
    IF i > Len(keys) THEN Result("true", st)
    ELSE AfterKey(ResolveKey(act, keys[i], PropPath(path, keys[i]), ctx, matchedKeys, st),
                  act, keys, i, path, PropPath(path, keys[i]), ctx, matchedKeys)

\* [...Object.keys(expected), ...Object.getOwnPropertySymbols(expected)]
ExpectedKeys(exp) ==
    SelectSeq(exp.e, LAMBDA en : ~en.sym) \o SelectSeq(exp.e, LAMBDA en : en.sym)

_assertRealInclude(act, exp, path, ctx, st) ==
    Boundary(ctx,
        IF TypeOf(act) # "object" \/ TypeOf(exp) # "object"
        THEN Result(IF CallEqual(ctx, act, exp) THEN "true" ELSE "throw", st)
        ELSE IF exp.k = "null" THEN Result("throw", st)    \* Object.keys(null)
        ELSE KeyLoop(act, ExpectedKeys(exp), 1, path, ctx, {}, st))

RECURSIVE ActualLoop(_, _, _, _, _, _, _, _)

\* the array matcher without the typeof test
SameTypeAlways(actualVal, expectedVal) == TRUE

\* typeof actual[actualIndex] !== expectedType: continue
SameType(actualVal, expectedVal) == TypeOf(actualVal) = TypeOf(expectedVal)

\* a match that forgets skipActuals.add(actualIndex)
TakeWithoutSkip(how, act, expectedVal, ei, expectedPath, ctx, ai, skipActuals, st) ==
    [r |-> "found", skip |-> skipActuals,
     st |-> ArrayEvent(st, how, expectedPath, ctx.mode, ei, ForIn(act)[ai].name, expectedVal,
                       ForIn(act)[ai].val, skipActuals, <<>>)]

\* skipActuals.add(actualIndex); found = true; break
Take(how, act, expectedVal, ei, expectedPath, ctx, ai, skipActuals, st) ==
    [r |-> "found", skip |-> skipActuals \cup {ForIn(act)[ai].name},
     st |-> ArrayEvent(st, how, expectedPath, ctx.mode, ei, ForIn(act)[ai].name, expectedVal,
                       ForIn(act)[ai].val, skipActuals, <<>>)]

\* A registered placeholder as expected element: taken or raised on the
\* first candidate
AfterProtocol(outcome, act, expectedVal, ei, expectedPath, ctx, ai, skipActuals) ==
    IF outcome.accepted
    THEN Take("symbol", act, expectedVal, ei, expectedPath, ctx, ai, skipActuals, outcome.st)
    ELSE [r |-> "throw", skip |-> skipActuals, st |-> outcome.st]

\* try { found = <recursive match>; skipActuals.add(actualIndex); if (found) break }
\* catch (e) { }
AfterProbe(probe, act, expectedVal, ei, expectedPath, ctx, ai, skipActuals) ==
    LET name == ForIn(act)[ai].name
        traced(skip) == ArrayEvent(StateOf(probe), "probe", expectedPath, ctx.mode, ei, name,
                                   expectedVal, ForIn(act)[ai].val, skip, <<>>)
    IN  CASE probe.r = "true" ->
                Take("composite", act, expectedVal, ei, expectedPath, ctx, ai, skipActuals,
                     StateOf(probe))
          [] probe.r = "false" ->
                \* skipActuals.add runs although the probe found nothing
                ActualLoop(act, expectedVal, ei, expectedPath, ctx, ai + 1,
                           skipActuals \cup {name}, traced(skipActuals \cup {name}))
          [] OTHER ->
                \* the probe raised: caught before skipActuals.add
                ActualLoop(act, expectedVal, ei, expectedPath, ctx, ai + 1,
                           skipActuals, traced(skipActuals))

\* for (const actualIndex in actual) from the ai-th index on, for one expected
\* element: [r, skip, st] with r "found", "notfound" (the loop ended) or "throw"
ActualLoop(act, expectedVal, ei, expectedPath, ctx, ai, skipActuals, st) ==
    LET elems == ForIn(act)
        name == elems[ai].name
        actualVal == elems[ai].val
        expectedType == TypeOf(expectedVal)
        called == FnCall(expectedVal.a, actualVal)
        continue == ActualLoop(act, expectedVal, ei, expectedPath, ctx, ai + 1, skipActuals, st)
    IN  IF ai > Len(elems) THEN [r |-> "notfound", skip |-> skipActuals, st |-> st]
        ELSE IF name \in skipActuals THEN continue
        ELSE IF expectedType = "function" /\ ctx.funcmode = "matcher" /\ called = "throw"
        THEN [r |-> "throw", skip |-> skipActuals, st |-> st]
        ELSE IF expectedType = "function" /\ ctx.funcmode = "matcher" /\ called = "true"
        THEN Take("function", act, expectedVal, ei, expectedPath, ctx, ai, skipActuals, st)
        \* a callable that returned false falls through to the tests below
        ELSE IF IsRegistered(ctx, expectedVal)
        THEN AfterProtocol(ResolveOrCheck(ctx, st, expectedVal.a, expectedVal.a, "element",
                                          expectedPath, actualVal),
                           act, expectedVal, ei, expectedPath, ctx, ai, skipActuals)
        ELSE IF ~SameType(actualVal, expectedVal) THEN continue
        ELSE IF expectedType = "object"
        THEN AfterProbe(IF IsArray(expectedVal)
                        THEN _assertRealArrayInclude(actualVal, expectedVal, expectedPath, ctx, st)
                        ELSE _assertRealInclude(actualVal, expectedVal, expectedPath, ctx, st),
                        act, expectedVal, ei, expectedPath, ctx, ai, skipActuals)
        ELSE IF StrictEquals(expectedVal, actualVal)
        THEN Take("scalar", act, expectedVal, ei, expectedPath, ctx, ai, skipActuals, st)
        ELSE continue

RECURSIVE ExpectedLoop(_, _, _, _, _, _, _, _)

\* if (!found) ctx.assertionFuncs.fail(...), else the next expected element
AfterScan(scan, act, exp, ei, path, ctx, assign) ==
    CASE scan.r = "throw" -> Result("throw", scan.st)
      [] scan.r = "notfound" ->
            Result("throw", ArrayEvent(scan.st, "notfound", path \o "." \o ForIn(exp)[ei].name,
                                       ctx.mode, ei, "", ForIn(exp)[ei].val, act, scan.skip,
                                       assign))
      [] OTHER ->
            ExpectedLoop(act, exp, ei + 1, path, ctx, scan.skip,
                         Append(assign, scan.st.arrs[Len(scan.st.arrs)].ai), scan.st)

\* the outer loop with an inner loop that starts at the expected index
\* instead of the first actual index
ExpectedLoopAligned(act, exp, ei, path, ctx, skipActuals, assign, st) ==
    IF ei > Len(ForIn(exp))
    THEN Result("true", ArrayEvent(st, "done", path, ctx.mode, 0, "", exp, act,
                                   skipActuals, assign))
    ELSE AfterScan(ActualLoop(act, ForIn(exp)[ei].val, ei, path \o "." \o ForIn(exp)[ei].name,
                              ctx, ei, skipActuals, st),
                   act, exp, ei, path, ctx, assign)

\* for (const expectedIndex in expected) from the ei-th index on
ExpectedLoop(act, exp, ei, path, ctx, skipActuals, assign, st) ==
    IF ei > Len(ForIn(exp))
    THEN Result("true", ArrayEvent(st, "done", path, ctx.mode, 0, "", exp, act,
                                   skipActuals, assign))
    ELSE AfterScan(ActualLoop(act, ForIn(exp)[ei].val, ei, path \o "." \o ForIn(exp)[ei].name,
                              ctx, 1, skipActuals, st),
                   act, exp, ei, path, ctx, assign)

_assertRealArrayInclude(act, exp, path, ctx, st) ==
    Boundary(ctx, ExpectedLoop(act, exp, 1, path, ctx, {}, <<>>, st))

-----------------------------------------------------------------------------
(* The context initializer and the process-wide defaults *)

NoFuncs == [fail |-> "none", equal |-> "none"]

\* Object.keys(defaultAssertionFuncs).length
DefaultsCount(funcs) == Cardinality({k \in {"fail", "equal"} : funcs[k] # "none"})

\* loadDefaultAssertionFuncs(): chai's assert when require('chai') succeeds,
\* the built-in pair when it raises
loadDefaultAssertionFuncs(funcs, chai) ==
    IF funcs.fail # "none" /\ funcs.equal # "none" THEN funcs
    ELSE IF chai
    THEN [k \in {"fail", "equal"} |-> IF funcs[k] = "none" THEN "chai" ELSE funcs[k]]
    ELSE [fail |-> "fallback", equal |-> "fallback"]

\* One normalised descriptor: { matcher: default, value: undefined, ...given }
NormalDescriptor(given) ==
    [matcher |-> IF given.matcher = "absent" THEN "defined" ELSE given.matcher,
     value |-> given.value]

\* initContextDefaults that normalises the caller's descriptor objects in
\* place and hands them to the new context
initContextDefaultsShared(opts, mode, defMode, defFuncs, chai, callerHeap) ==
    LET loaded == IF DefaultsCount(defFuncs) = 0
                  THEN loadDefaultAssertionFuncs(defFuncs, chai) ELSE defFuncs
    IN  [ctx |-> [funcmode |-> IF opts.funcmode = "absent" THEN "value" ELSE opts.funcmode,
                  mode |-> IF mode = "absent" THEN defMode ELSE mode,
                  symbols |-> opts.symbols,
                  assertionFuncs |-> loaded],
         heap |-> [i \in 1..Len(callerHeap) |-> NormalDescriptor(callerHeap[i])],
         defaults |-> loaded]

\* initContextDefaults(ctx): [ctx, heap, defaults].  The new context's symbols
\* are fresh descriptor objects, allocated after the caller's.
initContextDefaults(opts, mode, defMode, defFuncs, chai, callerHeap) ==
    LET loaded == IF DefaultsCount(defFuncs) = 0
                  THEN loadDefaultAssertionFuncs(defFuncs, chai) ELSE defFuncs
        n == Len(callerHeap)
    IN  [ctx |-> [funcmode |-> IF opts.funcmode = "absent" THEN "value" ELSE opts.funcmode,
                  mode |-> IF mode = "absent" THEN defMode ELSE mode,
                  symbols |-> [t \in DOMAIN opts.symbols |-> n + opts.symbols[t]],
                  assertionFuncs |-> loaded],
         heap |-> callerHeap \o [i \in 1..n |-> NormalDescriptor(callerHeap[i])],
         defaults |-> loaded]

\* The expected array as the caller passes it, its elements in the given order
Reordered(exp, order) ==
    IF exp.k # "array" THEN exp
    ELSE V("array", exp.a, [i \in 1..Len(exp.e) |->
                               Entry(FALSE, ToString(i - 1), exp.e[order[i]].val)])

Orders(exp) ==
    IF exp.k # "array" THEN {<<>>}
    ELSE {o \in [1..Len(exp.e) -> 1..Len(exp.e)] : \A i, j \in 1..Len(exp.e) : o[i] = o[j] => i = j}

Modes == {"absent", "check", "assert"}

\* What a call of a public entry point leaves behind
CallRecord(op, mode, order, init, res) ==
    [op |-> op, mode |-> mode, order |-> order, r |-> res.r,
     funcs |-> init.ctx.assertionFuncs, ctx |-> init.ctx,
     syms |-> res.syms, arrs |-> res.arrs,
     start |-> [t \in DOMAIN init.ctx.symbols |-> init.heap[init.ctx.symbols[t]]],
     bound |-> [t \in DOMAIN init.ctx.symbols |-> res.heap[init.ctx.symbols[t]].value]]

\* The effect of a call: the defaults it loaded, the caller's descriptor
\* objects as the call leaves them, and its record
Returned(op, mode, order, init, res) ==
    /\ defaultAssertionFuncs' = init.defaults
    /\ heap' = SubSeq(res.heap, 1, Len(heap))
    /\ last' = CallRecord(op, mode, order, init, res)
    /\ UNCHANGED <<defaultMode, chaiInstalled, actual, expected, options>>

Fresh(init) == [heap |-> init.heap, syms |-> <<>>, arrs |-> <<>>]

IncludeWith(mode, init) ==
    Returned("assertRealInclude", mode, <<>>, init,
             _assertRealInclude(actual, expected, "$", init.ctx, Fresh(init)))

ArrayIncludeWith(mode, order, init) ==
    Returned("assertRealArrayInclude", mode, order, init,
             _assertRealArrayInclude(actual, Reordered(expected, order), "$", init.ctx,
                                     Fresh(init)))

\* assertRealInclude(actual, expected, { ...options, mode })
AssertRealInclude(mode) ==
    IncludeWith(mode, initContextDefaults(options, mode, defaultMode, defaultAssertionFuncs,
                                          chaiInstalled, heap))

\* assertRealArrayInclude(actual, expected in some order, { ...options, mode })
AssertRealArrayInclude(mode, order) ==
    ArrayIncludeWith(mode, order,
                     initContextDefaults(options, mode, defaultMode, defaultAssertionFuncs,
                                         chaiInstalled, heap))

\* The assertionFuncs arguments of setDefaultMode: the entries in key order,
\* each a function or something else
FuncArgs ==
    LET one == {<<[key |-> k, val |-> v]>> : k \in {"fail", "equal"}, v \in {"function", "other"}}
        two == {a \o b : a \in one, b \in one}
    IN  {<<>>} \cup one \cup {s \in two : s[1].key # s[2].key}

\* the entries installed before the first one that is not a function
RECURSIVE Installed(_, _, _)
Installed(funcs, args, i) ==
    IF i > Len(args) \/ args[i].val # "function" THEN funcs
    ELSE Installed([funcs EXCEPT ![args[i].key] = "user"], args, i + 1)

\* setDefaultMode that installs every entry without testing that it is a function
SetDefaultModeUnchecked(mode, args) ==
    LET badMode == mode \notin {"check", "assert"}
    IN  /\ defaultMode' = IF badMode THEN defaultMode ELSE mode
        /\ defaultAssertionFuncs' =
              IF badMode THEN defaultAssertionFuncs
              ELSE [k \in {"fail", "equal"} |->
                      IF \E i \in 1..Len(args) : args[i].key = k
                      THEN "user" ELSE defaultAssertionFuncs[k]]
        /\ last' = [op |-> "setDefaultMode", mode |-> mode, order |-> <<>>,
                    r |-> IF badMode THEN "throw" ELSE "void",
                    funcs |-> args, ctx |-> <<>>, syms |-> <<>>, arrs |-> <<>>,
                    start |-> <<>>, bound |-> <<>>]
        /\ UNCHANGED <<chaiInstalled, actual, expected, options, heap>>

\* setDefaultMode(mode, assertionFuncs)
SetDefaultMode(mode, args) ==
    LET badMode == mode \notin {"check", "assert"}
        badFunc == \E i \in 1..Len(args) : args[i].val # "function"
    IN  /\ defaultMode' = IF badMode THEN defaultMode ELSE mode
        /\ defaultAssertionFuncs' =
              IF badMode THEN defaultAssertionFuncs ELSE Installed(defaultAssertionFuncs, args, 1)
        /\ last' = [op |-> "setDefaultMode", mode |-> mode, order |-> <<>>,
                    r |-> IF badMode \/ badFunc THEN "throw" ELSE "void",
                    funcs |-> args, ctx |-> <<>>, syms |-> <<>>, arrs |-> <<>>,
                    start |-> <<>>, bound |-> <<>>]
        /\ UNCHANGED <<chaiInstalled, actual, expected, options, heap>>

-----------------------------------------------------------------------------
(* The inputs of the model *)

MaxActualLen == 2
MaxExpectedLen == 2

Seqs(S, n) == UNION {[1..k -> S] : k \in 0..n}

Arrays(S, n) == {Arr(elems) : elems \in Seqs(S, n)}

\* The objects with keys among the given ones (in that order) and values in S
Objects(keys, S) ==
    LET Pick(ks) == SelectSeq(keys, LAMBDA k : k \in ks)
        names == {keys[i] : i \in 1..Len(keys)}
    IN  UNION {{Obj([i \in 1..Len(Pick(ks)) |-> Entry(FALSE, Pick(ks)[i], f[Pick(ks)[i]])]) :
                   f \in [ks -> S]} : ks \in SUBSET names}

NoSymbols == [t \in {} |-> 0]

Input(act, exp, funcmode, symbols, descriptors) ==
    [actual |-> Alloc(act, "A"), expected |-> Alloc(exp, "E"),
     options |-> [funcmode |-> funcmode, symbols |-> symbols], heap |-> descriptors]

\* Arrays of scalars and of arrays: a string and a number with the same digits
ScalarElems == {Str("1"), Num("1"), Arr(<<Str("1")>>)}
ScalarInputs ==
    {Input(a, e, "absent", NoSymbols, <<>>) :
        a \in Arrays(ScalarElems, MaxActualLen), e \in Arrays(ScalarElems, MaxExpectedLen)}

\* Callables as expected values, in both function-interpretation modes
CallableActuals == {Str("a"), Str("b"), Fn("isString")}
CallableExpecteds == {Fn("isString"), Fn("tstFunc"), Str("a")}
CallableInputs ==
    {Input(a, e, fm, NoSymbols, <<>>) :
        a \in Arrays(CallableActuals, MaxActualLen) \cup Objects(<<"a", "b">>, CallableActuals),
        e \in Arrays(CallableExpecteds, MaxExpectedLen) \cup Objects(<<"a", "b">>, CallableExpecteds),
        fm \in {"value", "matcher"}}

\* Arrays of objects and arrays
CompositeElems == {Obj(<<>>), Obj(<<Entry(FALSE, "a", Str("a"))>>), Arr(<<Str("a")>>)}
CompositeInputs ==
    {Input(a, e, "absent", NoSymbols, <<>>) :
        a \in Arrays(CompositeElems, MaxActualLen), e \in Arrays(CompositeElems, MaxExpectedLen)}

\* Placeholders s1 and s2 as keys, values and elements; s1 with the default
\* matcher or with a matcher of its own
TwoSymbols == [t \in {"s1", "s2"} |-> IF t = "s1" THEN 1 ELSE 2]
PlaceholderActuals ==
    {Str("a"), Str("b"), Obj(<<Entry(FALSE, "a", Str("a"))>>), Obj(<<Entry(FALSE, "a", Str("b"))>>)}
PlaceholderExpecteds ==
    {Sym("s1"), Sym("s2"), Obj(<<Entry(TRUE, "s1", Str("b"))>>), Obj(<<Entry(TRUE, "s1", Sym("s2"))>>)}
PlaceholderInputs ==
    {Input(a, e, "absent", TwoSymbols,
           <<[matcher |-> m, value |-> Undefined], [matcher |-> "absent", value |-> Undefined]>>) :
        a \in Arrays(PlaceholderActuals, MaxActualLen),
        e \in Arrays(PlaceholderExpecteds, MaxExpectedLen),
        m \in {"absent", "startsWithA"}}

\* Objects, one level of nesting, the empty string among the keys
ObjectActualValues == {Str("a"), Null, Obj(<<Entry(FALSE, "a", Str("a"))>>)}
ObjectExpectedValues ==
    {Str("a"), Null, Undefined, Obj(<<>>), Obj(<<Entry(FALSE, "b", Str("a"))>>)}
ObjectInputs ==
    {Input(a, e, "absent", NoSymbols, <<>>) :
        a \in Objects(<<"a", "">>, ObjectActualValues),
        e \in Objects(<<"a", "b", "">>, ObjectExpectedValues)}

\* Placeholders as the values of ordinary keys
ValueActuals == Objects(<<"a", "b">>, {Str("a"), Str("b")})
ValueExpecteds == Objects(<<"a", "b">>, {Sym("s1"), Sym("s2"), Str("a")})
ValueInputs ==
    {Input(a, e, "absent", TwoSymbols,
           <<[matcher |-> m, value |-> Undefined], [matcher |-> "absent", value |-> Undefined]>>) :
        a \in ValueActuals, e \in ValueExpecteds, m \in {"absent", "startsWithA"}}

\* Objects under a placeholder key, probed against objects with other keys
ProbeActuals == {Obj(<<Entry(FALSE, "a", Str("a"))>>), Obj(<<Entry(FALSE, "b", Str("b"))>>)}
ProbeExpecteds == {Obj(<<Entry(TRUE, "s1", Str("a"))>>), Obj(<<Entry(TRUE, "s1", Str("b"))>>)}
ProbeInputs ==
    {Input(a, e, "absent", TwoSymbols,
           <<[matcher |-> m, value |-> Undefined], [matcher |-> "absent", value |-> Undefined]>>) :
        a \in Arrays(ProbeActuals, MaxActualLen),
        e \in Arrays(ProbeExpecteds, MaxExpectedLen),
        m \in {"absent", "startsWithA"}}

\* The calls of a test-suite: one array and one object, matching or not
BasicInputs ==
    {Input(a, e, "absent", NoSymbols, <<>>) :
        a \in {Arr(<<Str("a")>>), Obj(<<Entry(FALSE, "a", Str("a"))>>)},
        e \in {Arr(<<Str("a")>>), Arr(<<Str("b")>>),
               Obj(<<Entry(FALSE, "a", Str("a"))>>), Obj(<<Entry(FALSE, "a", Str("b"))>>)}}

NoCall == [op |-> "none", mode |-> "absent", order |-> <<>>, r |-> "void", funcs |-> <<>>,
           ctx |-> <<>>, syms |-> <<>>, arrs |-> <<>>, start |-> <<>>, bound |-> <<>>]

\* A fresh process (ArrayInclude.ts:1-2) and a caller holding its inputs
InitWith(inputs) ==
    /\ defaultMode = "check"
    /\ defaultAssertionFuncs = NoFuncs
    /\ chaiInstalled \in BOOLEAN
    /\ \E in \in inputs :
          /\ actual = in.actual
          /\ expected = in.expected
          /\ options = in.options
          /\ heap = in.heap
    /\ last = NoCall

\* any of the families of inputs
InitAll ==
    \/ InitWith(ScalarInputs)
    \/ InitWith(CallableInputs)
    \/ InitWith(CompositeInputs)
    \/ InitWith(PlaceholderInputs)
    \/ InitWith(ObjectInputs)

Identity(exp) == IF exp.k # "array" THEN <<>> ELSE [i \in 1..Len(exp.e) |-> i]

\* the whole API, any arguments
Next ==
    \/ \E mode \in Modes : AssertRealInclude(mode)
    \/ \E mode \in Modes, order \in Orders(expected) : AssertRealArrayInclude(mode, order)
    \/ \E mode \in {"check", "assert", "other"}, args \in FuncArgs : SetDefaultMode(mode, args)

\* the two matchers, called as the test-suite calls them: with a mode
NextMatch ==
    \/ \E mode \in {"check", "assert"} : AssertRealInclude(mode)
    \/ \E mode \in {"check", "assert"} : AssertRealArrayInclude(mode, Identity(expected))

\* the two matchers, the expected array in any order
NextOrder ==
    \/ \E mode \in {"check", "assert"} : AssertRealInclude(mode)
    \/ \E mode \in {"check", "assert"}, order \in Orders(expected) :
          AssertRealArrayInclude(mode, order)

Spec == InitWith(BasicInputs) /\ [][Next]_vars
MatchSpec == InitAll /\ [][NextMatch]_vars
ScalarSpec == InitWith(ScalarInputs) /\ [][NextOrder]_vars
ObjectSpec == InitWith(ObjectInputs) /\ [][NextMatch]_vars
PlaceholderSpec == InitWith(PlaceholderInputs) /\ [][NextMatch]_vars
ValueSpec == InitWith(ValueInputs) /\ [][NextMatch]_vars
ProbeSpec == InitWith(ProbeInputs) /\ [][NextMatch]_vars

-----------------------------------------------------------------------------
(* Properties.  `last` is the record of the latest call; an action formula    *)
(* relates the latest call (last) to the one made now (last').                *)

IsMatch(call) == call.op \in {"assertRealInclude", "assertRealArrayInclude"}

\* the matcher a caller picks for the shape of its arguments
EntryFor(act) == IF IsArray(act) THEN "assertRealArrayInclude" ELSE "assertRealInclude"

Elems(v) == {v.e[i].val : i \in 1..Len(v.e)}

\* C1: Mode symmetry.  Two calls of the same entry point on the same actual,
\* expected and context except for the mode: the 'assert' call raises if and
\* only if the 'check' call returns false.
ModeSymmetry ==
    [][(/\ IsMatch(last) /\ IsMatch(last')
        /\ last'.op = last.op /\ last'.order = last.order
        /\ last.ctx.mode = "assert"
        /\ last'.ctx = [last.ctx EXCEPT !.mode = "check"])
       => (last.r = "throw" <=> last'.r = "false")]_vars

\* E is A with zero or more keys and array elements deleted at any level (no
\* renaming, no reordering)
RECURSIVE IsSubShape(_, _)
IsSubShape(e, a) ==
    IF e.k # a.k THEN FALSE
    ELSE IF e.k \notin {"object", "array"} THEN e.a = a.a
    ELSE \E f \in [1..Len(e.e) -> 1..Len(a.e)] :
            /\ \A i, j \in 1..Len(e.e) : i < j => f[i] < f[j]
            /\ \A i \in 1..Len(e.e) :
                  /\ e.k = "object" => /\ e.e[i].name = a.e[f[i]].name
                                       /\ e.e[i].sym = a.e[f[i]].sym
                  /\ IsSubShape(e.e[i].val, a.e[f[i]].val)

\* C2: Inclusion of any sub-shape.  With no placeholders and functions as
\* values, an expected that is a sub-shape of the composite actual is included:
\* the call returns true.
InclusionOfSubShape ==
    (/\ IsMatch(last)
     /\ last.op = EntryFor(actual)
     /\ last.order = Identity(expected)
     /\ last.ctx.funcmode = "value"
     /\ DOMAIN last.ctx.symbols = {}
     /\ actual.k \in {"object", "array"}
     /\ IsSubShape(expected, actual))
    => last.r = "true"

\* E names, at the top level or in a nested object that the match reaches, an
\* ordinary key that A does not have at that place
RECURSIVE NamesMissingKey(_, _)
NamesMissingKey(e, a) ==
    \E i \in 1..Len(e.e) :
        /\ ~e.e[i].sym
        /\ \/ ~HasKey(a, e.e[i].name)
           \/ /\ HasKey(a, e.e[i].name)
              /\ e.e[i].val.k = "object"
              /\ Get(a, e.e[i].name).k = "object"
              /\ NamesMissingKey(e.e[i].val, Get(a, e.e[i].name))

\* C3: Missing key fails.  An object match whose expected names an ordinary
\* key that the actual object lacks at that place returns false in check mode
\* and raises in assert mode.
MissingKeyFails ==
    (/\ last.op = "assertRealInclude"
     /\ actual.k = "object" /\ expected.k = "object"
     /\ NamesMissingKey(expected, actual))
    => last.r = (IF last.ctx.mode = "assert" THEN "throw" ELSE "false")

\* a nested key is missing while the top-level keys are all there
MissingKeyWitness ==
    /\ last.op = "assertRealInclude"
    /\ actual.k = "object" /\ expected.k = "object"
    /\ NamesMissingKey(expected, actual)
    /\ \A i \in 1..Len(expected.e) : HasKey(actual, expected.e[i].name)
    /\ last.ctx.mode = "assert"
    /\ last.r = "throw"

IsScalar(v) == TypeOf(v) \notin {"object", "function", "symbol"}

\* C4: Order independence for scalars.  Two calls of the array matcher in the
\* same context on the same actual and on two orders of the same expected
\* array of scalars: one succeeds if and only if the other does.
OrderIndependence ==
    [][(/\ last.op = "assertRealArrayInclude" /\ last'.op = "assertRealArrayInclude"
        /\ last'.ctx = last.ctx
        /\ IsArray(actual) /\ IsArray(expected)
        /\ \A x \in Elems(expected) : IsScalar(x))
       => (last.r = "true" <=> last'.r = "true")]_vars

\* two different scalars, expected in the reverse order, both found
OrderIndependenceWitness ==
    /\ last.op = "assertRealArrayInclude"
    /\ IsArray(actual) /\ IsArray(expected)
    /\ Len(expected.e) = 2
    /\ \A x \in Elems(expected) : IsScalar(x)
    /\ expected.e[1].val # expected.e[2].val
    /\ last.order = <<2, 1>>
    /\ last.r = "true"

Takes == {"function", "symbol", "composite", "scalar"}

\* C5: Type strictness in arrays.  In value funcmode with no placeholders the
\* array matcher never lets an expected element take an actual element of
\* another typeof, and an expected element whose typeof no actual element has
\* makes the call fail.
TypeStrictness ==
    (/\ last.op = "assertRealArrayInclude"
     /\ IsArray(actual) /\ IsArray(expected)
     /\ last.ctx.funcmode = "value"
     /\ DOMAIN last.ctx.symbols = {})
    => /\ \A n \in DOMAIN last.arrs :
            last.arrs[n].ev \in Takes
               => /\ TypeOf(last.arrs[n].exp) = TypeOf(last.arrs[n].act)
                  /\ IsScalar(last.arrs[n].exp) <=> IsScalar(last.arrs[n].act)
       /\ (\E x \in Elems(expected) : \A y \in Elems(actual) : TypeOf(y) # TypeOf(x))
             => last.r # "true"

\* the string '1' is there and the number 1 is expected: not found
TypeStrictnessWitness ==
    /\ last.op = "assertRealArrayInclude"
    /\ IsArray(actual) /\ IsArray(expected)
    /\ last.ctx.funcmode = "value"
    /\ Elems(actual) = {Str("1")}
    /\ Elems(expected) = {Num("1")}
    /\ last.r = "false"

\* C6: Placeholder consistency.  Every occurrence of a placeholder that is
\* already bound to v leaves the binding alone, and is satisfied only if, as a
\* key, the object has a property named v and, as an array element or an
\* object value, the candidate equals v; between two occurrences the binding
\* does not change.
PlaceholderConsistency ==
    IsMatch(last) =>
        \A n \in DOMAIN last.syms :
            LET o == last.syms[n]
                isBound(v) == MatcherCall(last.start[o.tok].matcher, v) = "true"
            IN  /\ isBound(o.before) =>
                      /\ o.after = o.before
                      /\ o.accepted =>
                            IF o.role = "key"
                            THEN o.before.k = "string" /\ HasKey(o.cand, o.before.a)
                            ELSE CallEqual(last.ctx, o.cand, o.before)
                /\ \A m \in DOMAIN last.syms :
                      (m < n /\ last.syms[m].tok = o.tok /\ isBound(last.syms[m].after))
                         => o.before = last.syms[m].after

Satisfies(p, x) == FnCall(p.a, x) = "true"

\* the actual elements that come before the one named `name`, or all of them
Before(act, name) ==
    {i \in 1..Len(act.e) : \A j \in 1..i : act.e[j].name # name}

\* C7: Matcher mode.  With funcmode 'matcher' an expected callable p takes, in
\* the array matcher, the first actual element not yet consumed on which p
\* returns true, and is not found only when there is none; in the object
\* matcher an expected object of callables on keys of the actual succeeds
\* exactly when each callable returns true on the value under its key.
MatcherMode ==
    (IsMatch(last) /\ last.ctx.funcmode = "matcher") =>
       /\ (last.op = "assertRealArrayInclude" /\ IsArray(actual) /\ IsArray(expected)) =>
             \A n \in DOMAIN last.arrs :
                LET ev == last.arrs[n]
                    free(name) == {i \in Before(actual, name) : actual.e[i].name \notin ev.skip}
                IN  (ev.exp.k = "function" /\ ev.path = "$." \o ToString(ev.ei - 1)) =>
                       /\ ev.ev \in Takes =>
                             /\ Satisfies(ev.exp, ev.act)
                             /\ \A i \in free(ev.ai) : ~Satisfies(ev.exp, actual.e[i].val)
                       /\ ev.ev = "notfound" =>
                             \A i \in free("") : ~Satisfies(ev.exp, actual.e[i].val)
       /\ (/\ last.op = "assertRealInclude"
           /\ actual.k = "object" /\ expected.k = "object"
           /\ \A i \in 1..Len(expected.e) :
                 expected.e[i].val.k = "function" /\ HasKey(actual, expected.e[i].name)) =>
             (last.r = "true" <=>
                 \A i \in 1..Len(expected.e) :
                     Satisfies(expected.e[i].val, Get(actual, expected.e[i].name)))

\* C8: No reuse of actual elements.  Every array match that ends with success,
\* at any level, has given each expected index an actual index of its own, and
\* a call with more expected than actual elements does not succeed.
NoReuse ==
    IsMatch(last) =>
       /\ \A n \in DOMAIN last.arrs :
             LET ev == last.arrs[n] IN
             ev.ev = "done" =>
                /\ Len(ev.assign) = Len(ForIn(ev.exp))
                /\ \A i \in 1..Len(ev.assign) :
                      \E j \in 1..Len(ForIn(ev.act)) : ForIn(ev.act)[j].name = ev.assign[i]
                /\ \A i, j \in 1..Len(ev.assign) : ev.assign[i] = ev.assign[j] => i = j
       /\ (last.op = "assertRealArrayInclude" /\ IsArray(expected) /\ last.r = "true") =>
             /\ \E n \in DOMAIN last.arrs : last.arrs[n].ev = "done" /\ last.arrs[n].path = "$"
             /\ Len(ForIn(expected)) <= Len(ForIn(actual))

\* two expected elements have taken two actual elements
NoReuseWitness ==
    /\ last.op = "assertRealArrayInclude"
    /\ IsArray(actual) /\ IsArray(expected)
    /\ last.r = "true"
    /\ \E n \in DOMAIN last.arrs :
          /\ last.arrs[n].ev = "done" /\ last.arrs[n].path = "$"
          /\ Len(last.arrs[n].assign) = 2
          /\ last.arrs[n].assign[1] # last.arrs[n].assign[2]

\* C9: setDefaultMode validation.  A call of setDefaultMode with a mode other
\* than 'check' and 'assert', or with an entry that is not a function, raises:
\* whatever the default mode, it never returns.
SetDefaultModeValidation ==
    (/\ last.op = "setDefaultMode"
     /\ \/ last.mode \notin {"check", "assert"}
        \/ \E i \in 1..Len(last.funcs) : last.funcs[i].val # "function")
    => last.r = "throw"

\* a valid mode with an entry that is not a function, the default mode being
\* 'assert'
SetDefaultModeWitness ==
    /\ last.op = "setDefaultMode"
    /\ last.mode = "assert"
    /\ defaultMode = "assert"
    /\ \E i \in 1..Len(last.funcs) : last.funcs[i].val # "function"
    /\ last.r = "throw"

\* C10: Request-scoped bindings.  A match leaves the caller's symbol
\* descriptors as they were, starts from the caller's descriptors whatever the
\* calls before it have bound, and the same call made twice in succession
\* gives the same result.
RequestScoped ==
    [][IsMatch(last') =>
          /\ heap' = heap
          /\ \A t \in DOMAIN options.symbols :
                last'.start[t].value = heap[options.symbols[t]].value
          /\ (/\ IsMatch(last) /\ last'.op = last.op
              /\ last'.mode = last.mode /\ last'.order = last.order)
                => last'.r = last.r]_vars

\* a call has bound both placeholders, and the caller's descriptors are
\* still unbound
RequestScopedWitness ==
    /\ IsMatch(last)
    /\ last.r = "true"
    /\ DOMAIN last.bound = {"s1", "s2"}
    /\ \A t \in DOMAIN last.bound :
          last.bound[t] # Undefined /\ heap[options.symbols[t]].value = Undefined

\* The resolve-or-check protocol on the values of the expected keys from the
\* i-th on, env being the bindings so far: [ok, env]
RECURSIVE ValueProtocol(_, _, _, _, _)
ValueProtocol(call, e, a, i, env) ==
    IF i > Len(e.e) THEN [ok |-> TRUE, env |-> env]
    ELSE LET en == e.e[i]
             v == Get(a, en.name)
             tok == en.val.a
             matcher == call.start[tok].matcher
         IN  IF en.val.k # "symbol"
             THEN IF CallEqual(call.ctx, v, en.val)
                  THEN ValueProtocol(call, e, a, i + 1, env)
                  ELSE [ok |-> FALSE, env |-> env]
             ELSE IF MatcherCall(matcher, env[tok]) = "true"
             THEN IF CallEqual(call.ctx, v, env[tok])
                  THEN ValueProtocol(call, e, a, i + 1, env)
                  ELSE [ok |-> FALSE, env |-> env]
             ELSE IF MatcherCall(matcher, v) = "true"
                  THEN ValueProtocol(call, e, a, i + 1, [env EXCEPT ![tok] = v])
                  ELSE [ok |-> FALSE, env |-> env]

\* C11: Placeholder as object value.  An object match whose expected values
\* under ordinary keys of the actual are registered placeholders or strings
\* succeeds exactly when the resolve-or-check protocol accepts each value in
\* turn (an unresolved placeholder is bound to a value its matcher accepts, a
\* bound one must equal the value), and then leaves the placeholders so bound.
PlaceholderAsValue ==
    (/\ last.op = "assertRealInclude"
     /\ actual.k = "object" /\ expected.k = "object"
     /\ \E i \in 1..Len(expected.e) : IsRegistered(last.ctx, expected.e[i].val)
     /\ \A i \in 1..Len(expected.e) :
           ~expected.e[i].sym /\ HasKey(actual, expected.e[i].name))
    => LET want == ValueProtocol(last, expected, actual, 1,
                                 [t \in DOMAIN last.start |-> last.start[t].value])
       IN  /\ last.r = "true" <=> want.ok
           /\ want.ok => last.bound = want.env

\* the paths of the elements of the expected array of the call
ElementPaths == {"$." \o expected.e[i].name : i \in 1..Len(expected.e)}

\* the actual indices that the array matcher of the call has consumed
Consumed(call) ==
    UNION {call.arrs[n].skip \cup (IF call.arrs[n].ev \in Takes THEN {call.arrs[n].ai} ELSE {}) :
              n \in {m \in DOMAIN call.arrs : /\ call.arrs[m].path \in ElementPaths
                                               /\ call.arrs[m].ev \in Takes \cup {"probe"}}}

\* the resolve-or-check protocol of the occurrence o would accept x
Passes(call, o, x) ==
    IF MatcherCall(call.start[o.tok].matcher, o.before) = "true"
    THEN CallEqual(call.ctx, x, o.before)
    ELSE MatcherCall(call.start[o.tok].matcher, x) = "true"

\* C12: Placeholder as array element scans all candidates.  When a registered
\* placeholder that is an element of the expected array is not satisfied, no
\* actual element that is still unconsumed passes the resolve-or-check
\* protocol.
PlaceholderScan ==
    (/\ last.op = "assertRealArrayInclude"
     /\ IsArray(actual) /\ IsArray(expected))
    => \A n \in DOMAIN last.syms :
          (/\ last.syms[n].role = "element"
           /\ last.syms[n].path \in ElementPaths
           /\ ~last.syms[n].accepted)
          => \A i \in 1..Len(actual.e) :
                actual.e[i].name \notin Consumed(last)
                   => ~Passes(last, last.syms[n], actual.e[i].val)

\* C13: Consume-on-attempt for composites.  In either mode and at every
\* level, a composite actual element that was probed for a composite expected
\* element and did not match is in skipActuals after the probe, and in the
\* array of the call no later expected element takes it.
ConsumeOnAttempt ==
    IsMatch(last) =>
       \A n \in DOMAIN last.arrs :
          last.arrs[n].ev = "probe" =>
             /\ last.arrs[n].ai \in last.arrs[n].skip
             /\ (/\ last.op = "assertRealArrayInclude"
                 /\ IsArray(actual) /\ IsArray(expected)
                 /\ last.arrs[n].path \in ElementPaths)
                => \A m \in DOMAIN last.arrs :
                      (m > n /\ last.arrs[m].path \in ElementPaths /\ last.arrs[m].ev \in Takes)
                         => last.arrs[m].ai # last.arrs[n].ai

IsResolved(call, t, v) == MatcherCall(call.start[t].matcher, v) = "true"

\* the object x alone satisfies the expected object e = {[s]: v} with s
\* unresolved: it has a key that the matcher of s accepts, with the value v
SatisfiesAlone(call, e, x) ==
    \E i \in 1..Len(x.e) :
        /\ MatcherCall(call.start[e.e[1].name].matcher, Str(x.e[i].name)) = "true"
        /\ CallEqual(call.ctx, x.e[i].val, e.e[1].val)

\* C14: Placeholders are bound only by a successful match.  An array match in
\* which no expected element has taken an actual element, so that every probe
\* has failed, leaves unresolved every placeholder that was unresolved; and a
\* single expected object {[s]: v} is found exactly when some actual element
\* satisfies it alone, whatever candidates were rejected before.
BoundOnlyBySuccess ==
    (/\ last.op = "assertRealArrayInclude"
     /\ IsArray(actual) /\ IsArray(expected))
    => /\ (\A n \in DOMAIN last.arrs : last.arrs[n].ev \notin Takes)
             => \A t \in DOMAIN last.start :
                   ~IsResolved(last, t, last.start[t].value)
                      => ~IsResolved(last, t, last.bound[t])
       /\ (/\ Len(expected.e) = 1
           /\ expected.e[1].val.k = "object"
           /\ Len(expected.e[1].val.e) = 1
           /\ expected.e[1].val.e[1].sym
           /\ \A x \in Elems(actual) : x.k = "object")
             => (last.r = "true" <=>
                    \E x \in Elems(actual) : SatisfiesAlone(last, expected.e[1].val, x))

\* The actual value x satisfies the expected value e, every array in e being
\* matched by some injective assignment of its elements (elem: e is an element
\* of an array, compared without coercion; otherwise the value of a key)
RECURSIVE Matches(_, _, _, _)
Matches(call, e, x, elem) ==
    CASE e.k = "function" /\ call.ctx.funcmode = "matcher" -> Satisfies(e, x)
      [] e.k = "array" ->
            /\ TypeOf(x) = "object"
            /\ \E f \in [1..Len(e.e) -> 1..Len(ForIn(x))] :
                  /\ \A i, j \in 1..Len(e.e) : f[i] = f[j] => i = j
                  /\ \A i \in 1..Len(e.e) : Matches(call, e.e[i].val, ForIn(x)[f[i]].val, TRUE)
      [] e.k = "object" ->
            /\ TypeOf(x) = "object" /\ x.k # "null"
            /\ \A i \in 1..Len(e.e) :
                  /\ HasKey(x, e.e[i].name)
                  /\ Matches(call, e.e[i].val, Get(x, e.e[i].name), FALSE)
      [] OTHER ->
            IF elem THEN TypeOf(x) = TypeOf(e) /\ StrictEquals(e, x)
            ELSE CallEqual(call.ctx, x, e)

\* C15: Greedy first-fit is not a complete matching.  Without placeholders,
\* whenever the array matcher succeeds there is an injective assignment of
\* the expected elements to actual elements that satisfy them.
GreedySound ==
    (/\ last.op = "assertRealArrayInclude"
     /\ IsArray(actual) /\ IsArray(expected)
     /\ DOMAIN last.ctx.symbols = {}
     /\ last.r = "true")
    => Matches(last, expected, actual, TRUE)

\* an assignment exists, and the scan has failed after an expected element
\* took an actual element that a later expected element needed
GreedyIncomplete ==
    /\ last.op = "assertRealArrayInclude"
    /\ IsArray(actual) /\ IsArray(expected)
    /\ DOMAIN last.ctx.symbols = {}
    /\ Matches(last, expected, actual, TRUE)
    /\ \E n \in DOMAIN last.arrs : last.arrs[n].ev \in Takes /\ last.arrs[n].path \in ElementPaths
    /\ \A n \in DOMAIN last.arrs : last.arrs[n].ev # "probe"
    /\ last.r = "false"

\* C16: Leaf primitives are always complete.  After any calls of
\* setDefaultMode, the context of a match has both 'fail' and 'equal', and an
\* object is included in an object with the same key and the same string
\* under it.
LeafPrimitivesComplete ==
    IsMatch(last) =>
       /\ last.ctx.assertionFuncs.fail # "none"
       /\ last.ctx.assertionFuncs.equal # "none"
       /\ (/\ last.op = "assertRealInclude"
           /\ actual.k = "object" /\ expected.k = "object"
           /\ Len(actual.e) = 1 /\ Len(expected.e) = 1
           /\ actual.e[1].name = expected.e[1].name
           /\ IsScalar(expected.e[1].val)
           /\ actual.e[1].val = expected.e[1].val)
          => last.r = "true"

====
